---- MODULE Spec2Model ----
(***************************************************************************)
(* LifeScript financial simulation: the Account model, the                 *)
(* FinancialSimulation engine (run) and the callers that start it          *)
(* (FinanceApp.run_simulation of financial_sym_gui.py, the console script  *)
(* of cfp.py).                                                             *)
(*                                                                         *)
(* Money is counted in thousandths of a currency unit (1000 = 1.00), so    *)
(* that round(x, 2) is a real rounding.  Annual rates are the integers of  *)
(* Rates, for which (1 + r) ** (1/12) is known exactly.                    *)
(***************************************************************************)
EXTENDS Integers, Sequences, FiniteSets, TLC

VARIABLES
    revision,      \* "gui": financial_sym_gui.py, "cfp": cfp.py
    accounts,      \* the caller's account mapping (FinanceApp.accounts / main's accounts)
    events,        \* the caller's event list (FinanceApp.events / the events main adds)
    months_entry,  \* the month count the caller typed in
    sim,           \* the FinancialSimulation instance: accounts, months, events, history
    month,         \* run(): the loop variable `month`
    idx,           \* run(): position of the inner `for event in self.events` (1-based)
    pc,            \* where run() is: idle, events, snapshot, returning, done, raised
    passed,        \* what was handed to FinancialSimulation.__init__, as it was then
    outputs,       \* the histories run() has returned to the caller, in call order
    applied,       \* log of the event applications of the current run: <<month, index>>
    runs           \* how many times the caller has started a simulation

vars == <<revision, accounts, events, months_entry, sim, month, idx, pc,
          passed, outputs, applied, runs>>

---------------------------------------------------------------------------
\* Bounds of the model

MaxMonths == 2
MaxEvents == 2
MaxAccounts == 2
MaxRuns == 2

\* The months of a year: the 12 of (1 + annual_return) ** (1/12)
Year == 12

\* Input values (thousandths of a currency unit; annual rates)
AccountNames == {"A", "Month", "Total"}
EventAccounts == {"A", "X"}
Balances == {4, 1000000}
Rates == {0, 4095}
EventRates == {-2, 0, 4095}
Contributions == {-10, 0, 10}
Amounts == {500000}
EventTypes == {"deposit", "expense", "apy_change", "bonus"}

---------------------------------------------------------------------------
\* Account (financial_sym_gui.py 25-43, cfp.py 9-25)

\* A balance that has become a Python complex number is marked is_complex; its
\* numeric value is then no longer tracked (it is never read before round() fails).
Account(name, balance, annual_return, monthly_contribution) ==
    [name |-> name, balance |-> balance, annual_return |-> annual_return,
     monthly_contribution |-> monthly_contribution, is_complex |-> FALSE]

\* Faulty variant of monthly_return: the annual rate divided by twelve
monthly_returnNominal(acc) == acc.annual_return \div Year

\* (1 + annual_return) ** (1/12) - 1 for the rates whose twelfth root is exact:
\* 1 + 4095 = 2^12, 1 + 0 = 1, 1 + (-1) = 0.
monthly_return(acc) ==
    CASE acc.annual_return = 0 -> 0
      [] acc.annual_return = 4095 -> 1
      [] acc.annual_return = -1 -> -1

\* A negative base raised to 1/12 is a complex number in Python 3.
ReturnIsComplex(acc) == 1 + acc.annual_return < 0

apply_growth(acc) ==
    IF acc.is_complex \/ ReturnIsComplex(acc)
    THEN [acc EXCEPT !.is_complex = TRUE]
    ELSE [acc EXCEPT !.balance = @ * (1 + monthly_return(acc))]

deposit(acc, amount) == [acc EXCEPT !.balance = @ + amount]

\* Faulty variant of withdraw: an amount above the balance is refused
withdrawGuarded(acc, amount) ==
    IF amount > acc.balance THEN acc ELSE [acc EXCEPT !.balance = @ - amount]

withdraw(acc, amount) == [acc EXCEPT !.balance = @ - amount]

\* round(x, 2): to the nearest hundredth (10 thousandths), ties to the even hundredth
Round2(x) ==
    LET q == x \div 10
        r == x % 10
    IN  IF r < 5 THEN 10 * q
        ELSE IF r > 5 THEN 10 * (q + 1)
        ELSE IF q % 2 = 0 THEN 10 * q ELSE 10 * (q + 1)

---------------------------------------------------------------------------
\* FinancialSimulation (financial_sym_gui.py 46-87, cfp.py 43-73)

NoAccounts == [n \in {} |-> Account(n, 0, 0, 0)]

Event(m, type, account, amount, new_apy) ==
    [month |-> m, type |-> type, account |-> account, amount |-> amount,
     new_apy |-> new_apy]

\* self.accounts.get(event.account); an Account object is always truthy, so
\* `not acc` holds exactly when the name is no key of the mapping.
Resolves(accs, name) == name \in DOMAIN accs

\* The body run by a due event of the tagged-variant revision (gui 59-71).
\* Faulty variant of ApplyEvent: the last branch is an else, so that every kind
\* but expense and apy_change deposits
ApplyEventElseDeposit(accs, e) ==
    IF ~Resolves(accs, e.account) THEN accs
    ELSE CASE e.type = "expense" ->
                [accs EXCEPT ![e.account] = withdraw(@, e.amount)]
           [] e.type = "apy_change" ->
                [accs EXCEPT ![e.account].annual_return = e.new_apy]
           [] OTHER ->
                [accs EXCEPT ![e.account] = deposit(@, e.amount)]

ApplyEvent(accs, e) ==
    IF ~Resolves(accs, e.account) THEN accs
    ELSE CASE e.type = "deposit" ->
                [accs EXCEPT ![e.account] = deposit(@, e.amount)]
           [] e.type = "expense" ->
                [accs EXCEPT ![e.account] = withdraw(@, e.amount)]
           [] e.type = "apy_change" ->
                [accs EXCEPT ![e.account].annual_return = e.new_apy]
           [] OTHER -> accs

\* The closures main builds in cfp.py (120, 135, 152) index accs[n]: a missing
\* name is a KeyError.
ActionRaises(accs, e) == e.account \notin DOMAIN accs

\* Whether a due event changes an account (a recognised kind, a resolved account)
Acts(accs, e) ==
    /\ Resolves(accs, e.account)
    /\ e.type \in {"deposit", "expense", "apy_change"}

\* Faulty variant of GrowAccount: growth first, the contribution after it
GrowAccountThenContribute(rev, acc) ==
    IF rev = "gui" /\ acc.monthly_contribution > 0
    THEN deposit(apply_growth(acc), acc.monthly_contribution)
    ELSE apply_growth(acc)

\* One account's share of the growth pass: gui 75-78 (contribution, then growth),
\* cfp 62-63 (growth only).
GrowAccount(rev, acc) ==
    IF rev = "gui" /\ acc.monthly_contribution > 0
    THEN apply_growth(deposit(acc, acc.monthly_contribution))
    ELSE apply_growth(acc)

GrowthPass(rev, accs) == [n \in DOMAIN accs |-> GrowAccount(rev, accs[n])]

RECURSIVE SumOver(_, _)
SumOver(accs, names) ==
    IF names = {} THEN 0
    ELSE LET n == CHOOSE x \in names : TRUE
         IN  accs[n].balance + SumOver(accs, names \ {n})

\* sum(a.balance for a in self.accounts.values())
SumBalances(accs) == SumOver(accs, DOMAIN accs)

\* round() of a complex balance is a TypeError
SnapshotRaises(accs) == \E n \in DOMAIN accs : accs[n].is_complex

\* The snapshot dict: "Month" is written first, then one key per account name,
\* then "Total"; a later write to the same key replaces the earlier one.
Snapshot(accs, m) ==
    [k \in {"Month"} \cup DOMAIN accs \cup {"Total"} |->
        IF k = "Total" THEN Round2(SumBalances(accs))
        ELSE IF k \in DOMAIN accs THEN Round2(accs[k].balance)
        ELSE m]

NoSim == [accounts |-> NoAccounts, months |-> 0, events |-> <<>>, history |-> <<>>]

\* Faulty variant of CallerAccounts: the GUI hands its own mapping to the engine
CallerAccountsShared(rev, own, simAccs) == simAccs

\* The caller's mapping is the engine's own dict in cfp.py (main hands `accounts`
\* itself to the constructor); the GUI hands over fresh Account objects.
CallerAccounts(rev, own, simAccs) == IF rev = "cfp" THEN simAccs ELSE own

\* accounts_copy of run_simulation (gui 476-484)
CopyAccounts(accs) ==
    [n \in DOMAIN accs |->
        Account(accs[n].name, accs[n].balance, accs[n].annual_return,
                accs[n].monthly_contribution)]

\* What the caller hands to the constructor
HandedAccounts(rev, accs) == IF rev = "gui" THEN CopyAccounts(accs) ELSE accs

\* Faulty variant of LoopEntered: only a month count of zero skips the loop
LoopEnteredNonZero(months) == months # 0

\* Whether range(1, months + 1) has a first month (gui 54)
LoopEntered(months) == months >= 1

\* run_simulation (gui 471-488) / main (cfp 110, 163): construct the engine and
\* enter run(); range(1, months + 1) is empty when months < 1.
RunSimulation ==
    /\ pc \in {"idle", "done", "raised"}
    /\ runs < MaxRuns
    /\ revision = "cfp" => runs = 0
    /\ sim' = [accounts |-> HandedAccounts(revision, accounts),
               months |-> months_entry, events |-> events, history |-> <<>>]
    /\ passed' = [accounts |-> HandedAccounts(revision, accounts), events |-> events]
    /\ runs' = runs + 1
    /\ applied' = <<>>
    /\ month' = 1
    /\ idx' = 1
    /\ pc' = IF LoopEntered(months_entry) THEN "events" ELSE "returning"
    /\ UNCHANGED <<revision, accounts, events, months_entry, outputs>>

\* Faulty variant of EventAt: the list is walked from its end
EventAtReversed(evs, i) == evs[Len(evs) + 1 - i]

\* `for event in self.events`: the list is walked in its own order
EventAt(evs, i) == evs[i]

\* `if event.month == month`
Due(e, m) == e.month = m

\* Faulty variant of EventRaises: the GUI revision indexes self.accounts[event.account]
EventRaisesUnresolved(rev, accs, e) == ActionRaises(accs, e)

\* Whether handling a due event raises: never in the GUI revision (get, then
\* `continue`), a KeyError for a missing name in cfp.py
EventRaises(rev, accs, e) == rev = "cfp" /\ ActionRaises(accs, e)

\* Faulty variant of EventLoopDone: the growth pass does not wait for the event loop
EventLoopDoneAnytime(i, evs) == TRUE

\* The inner loop is over once every event of the list has been looked at
EventLoopDone(i, evs) == i > Len(evs)

\* range(1, self.months + 1): whether another month follows month m
MoreMonths(m, months) == m < months

\* One iteration of `for event in self.events` (gui 57-71, cfp 57-59)
EventStep ==
    /\ pc = "events"
    /\ idx <= Len(sim.events)
    /\ LET e == EventAt(sim.events, idx)
           due == Due(e, month)
       IN  IF due /\ EventRaises(revision, sim.accounts, e)
           THEN /\ pc' = "raised"
                /\ UNCHANGED <<sim, accounts, applied, idx>>
           ELSE /\ sim' = IF due
                          THEN [sim EXCEPT !.accounts = ApplyEvent(sim.accounts, e)]
                          ELSE sim
                /\ accounts' = CallerAccounts(revision, accounts, sim'.accounts)
                /\ applied' = IF due /\ Acts(sim.accounts, e)
                              THEN Append(applied, <<month, idx>>)
                              ELSE applied
                /\ idx' = idx + 1
                /\ pc' = pc
    /\ UNCHANGED <<revision, events, months_entry, month, passed, outputs, runs>>

\* `for acc in self.accounts.values()` (gui 74-78, cfp 62-63), entered when the
\* event loop is exhausted
GrowthStep ==
    /\ pc = "events"
    /\ EventLoopDone(idx, sim.events)
    /\ sim' = [sim EXCEPT !.accounts = GrowthPass(revision, sim.accounts)]
    /\ accounts' = CallerAccounts(revision, accounts, sim'.accounts)
    /\ pc' = "snapshot"
    /\ UNCHANGED <<revision, events, months_entry, month, idx, passed, outputs,
                   applied, runs>>

\* Build and append the snapshot (gui 80-85, cfp 66-71), then the next month
SnapshotStep ==
    /\ pc = "snapshot"
    /\ IF SnapshotRaises(sim.accounts)
       THEN /\ pc' = "raised"
            /\ UNCHANGED <<sim, month, idx>>
       ELSE /\ sim' = [sim EXCEPT !.history = Append(@, Snapshot(sim.accounts, month))]
            /\ month' = month + 1
            /\ idx' = 1
            /\ pc' = IF MoreMonths(month, sim.months) THEN "events" ELSE "returning"
    /\ UNCHANGED <<revision, accounts, events, months_entry, passed, outputs,
                   applied, runs>>

\* return self.history (gui 87, cfp 73); the caller shows every row (gui 490-492)
Return ==
    /\ pc = "returning"
    /\ pc' = "done"
    /\ outputs' = Append(outputs, sim.history)
    /\ UNCHANGED <<revision, accounts, events, months_entry, sim, month, idx,
                   passed, applied, runs>>

Next == RunSimulation \/ EventStep \/ GrowthStep \/ SnapshotStep \/ Return

---------------------------------------------------------------------------
\* The inputs a caller can hand over

\* Account mappings: what add_account builds (gui 190-205: the key is the
\* stripped, non-empty name typed in, and the Account carries that name)
AccountsOver(names) ==
    { [n \in names |-> Account(n, f[n][1], f[n][2], f[n][3])] :
        f \in [names -> Balances \X Rates \X Contributions] }

AccountMappings ==
    UNION { AccountsOver(names) :
              names \in { s \in SUBSET AccountNames : Cardinality(s) <= MaxAccounts } }

\* Events as the Event dataclass holds them (gui 18-24): new_apy for an
\* apy_change, amount for every other kind, the other field at its default 0.0
EventsOfType(type) ==
    CASE type = "apy_change" ->
           { Event(m, type, a, 0, r) : m \in 0..MaxMonths, a \in EventAccounts,
                                       r \in EventRates }
      [] OTHER ->
           { Event(m, type, a, v, 0) : m \in 0..MaxMonths, a \in EventAccounts,
                                       v \in Amounts }

EventValues(types) == UNION { EventsOfType(t) : t \in types }

EventLists(types) ==
    UNION { [1..n -> EventValues(types)] : n \in 0..MaxEvents }

MonthCounts == -1..MaxMonths

\* Before the caller starts a simulation
InitEngine ==
    /\ sim = NoSim
    /\ month = 1
    /\ idx = 1
    /\ pc = "idle"
    /\ passed = [accounts |-> NoAccounts, events |-> <<>>]
    /\ outputs = <<>>
    /\ applied = <<>>
    /\ runs = 0

\* The GUI revision with a fully-formed set of accounts, month count and event
\* list.  Lists of events are run against the mappings whose only possible key is
\* "A", the account name events can resolve; every other mapping (other names,
\* several accounts) is run with no event.
Init ==
    /\ revision = "gui"
    /\ accounts \in AccountMappings
    /\ events \in EventLists(EventTypes)
    /\ Len(events) > 0 => DOMAIN accounts \subseteq {"A"}
    /\ months_entry \in MonthCounts
    /\ InitEngine

Spec == Init /\ [][Next]_vars

\* The console revision: main builds the mapping, hands it to the constructor as
\* it is, and adds deposit, withdraw and setattr closures (cfp 100-154); its
\* Account has no monthly_contribution.
InitCfp ==
    /\ revision = "cfp"
    /\ accounts \in { a \in AccountMappings :
                        \A n \in DOMAIN a : a[n].monthly_contribution = 0 }
    /\ events \in EventLists({"deposit", "expense", "apy_change"})
    /\ Len(events) > 0 => DOMAIN accounts \subseteq {"A"}
    /\ months_entry \in MonthCounts
    /\ InitEngine

SpecCfp == InitCfp /\ [][Next]_vars

\* Balances and rates for runs of up to a year of plain growth
YearBalances == {4, 1005}

YearRates == {-1, 0, 4095}

\* The GUI revision with accounts that have no contribution and no event of their
\* own (the only events name "X", which is no account), for up to twelve months
InitYear ==
    /\ revision = "gui"
    /\ accounts \in UNION { { [n \in names |-> Account(n, f[n][1], f[n][2], 0)] :
                                f \in [names -> YearBalances \X YearRates] } :
                            names \in { x \in SUBSET AccountNames :
                                          Cardinality(x) <= MaxAccounts } }
    /\ events \in { <<>> } \cup
                  { <<e>> : e \in { v \in EventValues({"deposit", "apy_change"}) :
                                      v.account = "X" /\ v.month = 1 } }
    /\ months_entry \in 0..Year
    /\ InitEngine

SpecYear == InitYear /\ [][Next]_vars

---------------------------------------------------------------------------
\* run() as a function of its inputs: the two loops of one month, and the months
\* in order (gui 54-78, cfp 54-63)

RECURSIVE EventPass(_, _, _, _)
EventPass(accs, evs, m, i) ==
    IF i > Len(evs) THEN accs
    ELSE EventPass(IF evs[i].month = m THEN ApplyEvent(accs, evs[i]) ELSE accs,
                   evs, m, i + 1)

RECURSIVE AccountsAfter(_, _, _, _, _)
AccountsAfter(rev, accs, evs, m, last) ==
    IF m > last THEN accs
    ELSE AccountsAfter(rev, GrowthPass(rev, EventPass(accs, evs, m, 1)), evs,
                       m + 1, last)

---------------------------------------------------------------------------
\* FinanceApp.get_projected_balance (gui 298-321)

\* The inner loop over self.events: the month's events that name the account, on
\* the running balance and rate
RECURSIVE ProjectEvents(_, _, _, _, _)
ProjectEvents(temp, evs, account_name, m, i) ==
    IF i > Len(evs) THEN temp
    ELSE LET e == evs[i]
             next == IF e.month = m /\ e.account = account_name
                     THEN CASE e.type = "deposit" ->
                                 [temp EXCEPT !.balance = @ + e.amount]
                            [] e.type = "expense" ->
                                 [temp EXCEPT !.balance = @ - e.amount]
                            [] e.type = "apy_change" ->
                                 [temp EXCEPT !.annual_return = e.new_apy]
                            [] OTHER -> temp
                     ELSE temp
         IN  ProjectEvents(next, evs, account_name, m, i + 1)

\* The loop over range(1, target_month + 1): the contribution is added whatever
\* its sign, then the events, then the month's growth at the running rate
RECURSIVE ProjectMonths(_, _, _, _, _)
ProjectMonths(temp, evs, account_name, m, target_month) ==
    IF m > target_month THEN temp
    ELSE ProjectMonths(
             apply_growth(ProjectEvents(
                 [temp EXCEPT !.balance = @ + temp.monthly_contribution],
                 evs, account_name, m, 1)),
             evs, account_name, m + 1, target_month)

\* round(temp_balance, 2) of a complex number is a TypeError
ProjectionRaises(accs, evs, account_name, target_month) ==
    /\ account_name \in DOMAIN accs
    /\ ProjectMonths(accs[account_name], evs, account_name, 1, target_month).is_complex

get_projected_balance(accs, evs, account_name, target_month) ==
    IF account_name \notin DOMAIN accs THEN 0
    ELSE Round2(ProjectMonths(accs[account_name], evs, account_name, 1,
                              target_month).balance)

---------------------------------------------------------------------------
\* FinanceApp: the handlers of the account and event buttons (gui 190-469).  Tk
\* runs one callback at a time, so a handler never runs inside run().  A handler
\* that finds nothing selected, or whose question is answered no, changes nothing.

\* What the user types into name_entry / event_account_entry, stripped
TypedNames == {"", "A", "B"}

TypedBalances == {4, 1000000}

TypedRates == {0}

TypedContributions == {-10, 0}

\* Numbers typed into event_value_entry: a rate for an apy_change, an amount of
\* currency for a deposit or an expense
TypedValues == {-2, 0, 600}

TypedMonths == 0..MaxMonths

\* A typed amount of currency in the thousandths balances are kept in
Money(v) == 1000 * v

HandlerMayRun == pc \in {"idle", "done", "raised"}

\* self.accounts[name] = Account(...): a new key, or a new object under an old key
WithAccount(accs, acc) ==
    [n \in DOMAIN accs \cup {acc.name} |-> IF n = acc.name THEN acc ELSE accs[n]]

\* add_account (gui 190-216); the model stops at MaxAccounts keys
AddAccount(name, balance, annual_return, monthly_contribution) ==
    /\ HandlerMayRun
    /\ name \in DOMAIN accounts \/ Cardinality(DOMAIN accounts) < MaxAccounts
    /\ accounts' = IF name = "" THEN accounts
                   ELSE WithAccount(accounts, Account(name, balance, annual_return,
                                                      monthly_contribution))
    /\ UNCHANGED <<revision, events, months_entry, sim, month, idx, pc, passed,
                   outputs, applied, runs>>

\* edit_account on the mapping (gui 255-273): pop and re-insert under the new
\* name, then the three fields
EditedAccounts(accs, old_name, new_name, balance, annual_return, contribution) ==
    [n \in (DOMAIN accs \ {old_name}) \cup {new_name} |->
        IF n = new_name
        THEN [accs[old_name] EXCEPT !.name = new_name,
                                    !.balance = balance,
                                    !.annual_return = annual_return,
                                    !.monthly_contribution = contribution]
        ELSE accs[n]]

\* Faulty variant of RenamedEvents: the events keep the old account name
RenamedEventsKept(evs, old_name, new_name) == evs

\* edit_account on the events (gui 259-262)
RenamedEvents(evs, old_name, new_name) ==
    [i \in 1..Len(evs) |->
        IF evs[i].account = old_name THEN [evs[i] EXCEPT !.account = new_name]
        ELSE evs[i]]

\* edit_account (gui 238-273) with old_name selected in the listbox
EditAccount(old_name, new_name, balance, annual_return, monthly_contribution) ==
    /\ HandlerMayRun
    /\ old_name \in DOMAIN accounts
    /\ accounts' = EditedAccounts(accounts, old_name, new_name, balance,
                                  annual_return, monthly_contribution)
    /\ events' = IF new_name # old_name
                 THEN RenamedEvents(events, old_name, new_name)
                 ELSE events
    /\ UNCHANGED <<revision, months_entry, sim, month, idx, pc, passed, outputs,
                   applied, runs>>

\* [e for e in self.events if e.account != name] (gui 288)
EventsWithout(evs, name) == SelectSeq(evs, LAMBDA e : e.account # name)

\* remove_account (gui 275-291) with name selected and the question answered yes
RemoveAccount(name) ==
    /\ HandlerMayRun
    /\ name \in DOMAIN accounts
    /\ accounts' = [n \in DOMAIN accounts \ {name} |-> accounts[n]]
    /\ events' = EventsWithout(events, name)
    /\ UNCHANGED <<revision, months_entry, sim, month, idx, pc, passed, outputs,
                   applied, runs>>

\* The checks add_event makes before it builds the Event (gui 329-359)
AddEventRejects(accs, evs, max_month, m, type, account, value) ==
    \/ m < 1 \/ m > max_month
    \/ type \notin {"deposit", "expense", "apy_change"}
    \/ account \notin DOMAIN accs
    \/ IF type = "apy_change" THEN value < 0 \/ value > 1
       ELSE \/ value <= 0
            \/ /\ type = "expense"
               /\ Money(value) > get_projected_balance(accs, evs, account, m - 1)

\* Event(month, event_type, account, new_apy=value) / (..., amount=value)
TypedEvent(m, type, account, value) ==
    IF type = "apy_change" THEN Event(m, type, account, 0, value)
    ELSE Event(m, type, account, Money(value), 0)

\* add_event (gui 323-372); the model stops at MaxEvents events
AddEvent(m, type, account, value) ==
    /\ HandlerMayRun
    /\ Len(events) < MaxEvents
    /\ events' = IF AddEventRejects(accounts, events, months_entry, m, type,
                                    account, value)
                 THEN events
                 ELSE Append(events, TypedEvent(m, type, account, value))
    /\ UNCHANGED <<revision, accounts, months_entry, sim, month, idx, pc, passed,
                   outputs, applied, runs>>

\* The checks edit_event makes before it touches the event (gui 418-430)
EditEventRejectsEarly(accs, max_month, new_month, type, account) ==
    \/ new_month < 1 \/ new_month > max_month
    \/ type \notin {"deposit", "expense", "apy_change"}
    \/ account \notin DOMAIN accs

\* e.month = new_month; e.account = account; e.type = event_type (gui 432-434)
Retargeted(evs, i, new_month, type, account) ==
    [evs EXCEPT ![i] = [@ EXCEPT !.month = new_month, !.account = account,
                                 !.type = type]]

\* The checks edit_event makes after those assignments (gui 436-451); the
\* projection reads the list with the event already retargeted
EditEventRejectsLate(accs, evs, i, new_month, type, account, value) ==
    IF type = "apy_change" THEN value < 0 \/ value > 1
    ELSE \/ value <= 0
         \/ /\ type = "expense"
            /\ Money(value) >
                   get_projected_balance(accs, Retargeted(evs, i, new_month, type,
                                                          account),
                                         account, new_month - 1)

\* The value fields of an accepted edit (gui 439-440, 453-454)
Revalued(evs, i, type, value) ==
    [evs EXCEPT ![i] = IF type = "apy_change"
                       THEN [@ EXCEPT !.new_apy = value, !.amount = 0]
                       ELSE [@ EXCEPT !.amount = Money(value), !.new_apy = 0]]

\* The event list edit_event leaves behind
EditedEvents(accs, evs, max_month, i, new_month, type, account, value) ==
    IF EditEventRejectsEarly(accs, max_month, new_month, type, account)
    THEN evs
    ELSE IF EditEventRejectsLate(accs, evs, i, new_month, type, account, value)
         THEN Retargeted(evs, i, new_month, type, account)
         ELSE Revalued(Retargeted(evs, i, new_month, type, account), i, type, value)

\* edit_event (gui 406-460) with the i-th event selected
EditEvent(i, new_month, type, account, value) ==
    /\ HandlerMayRun
    /\ i \in 1..Len(events)
    /\ events' = EditedEvents(accounts, events, months_entry, i, new_month, type,
                              account, value)
    /\ UNCHANGED <<revision, accounts, months_entry, sim, month, idx, pc, passed,
                   outputs, applied, runs>>

\* del self.events[selection[0]] (gui 462-469)
RemoveEvent(i) ==
    /\ HandlerMayRun
    /\ i \in 1..Len(events)
    /\ events' = [j \in 1..(Len(events) - 1) |->
                    IF j < i THEN events[j] ELSE events[j + 1]]
    /\ UNCHANGED <<revision, accounts, months_entry, sim, month, idx, pc, passed,
                   outputs, applied, runs>>

AddAccountStep ==
    \E name \in TypedNames, balance \in TypedBalances, annual_return \in TypedRates,
       monthly_contribution \in TypedContributions :
        AddAccount(name, balance, annual_return, monthly_contribution)

EditAccountStep ==
    \E old_name \in DOMAIN accounts, new_name \in TypedNames,
       balance \in TypedBalances, annual_return \in TypedRates,
       monthly_contribution \in TypedContributions :
        EditAccount(old_name, new_name, balance, annual_return, monthly_contribution)

RemoveAccountStep == \E name \in DOMAIN accounts : RemoveAccount(name)

AddEventStep ==
    \E m \in TypedMonths, type \in EventTypes, account \in TypedNames,
       value \in TypedValues :
        AddEvent(m, type, account, value)

EditEventStep ==
    \E i \in 1..Len(events), m \in TypedMonths, type \in EventTypes,
       account \in TypedNames, value \in TypedValues :
        EditEvent(i, m, type, account, value)

RemoveEventStep == \E i \in 1..Len(events) : RemoveEvent(i)

NextGui ==
    \/ AddAccountStep
    \/ EditAccountStep
    \/ RemoveAccountStep
    \/ AddEventStep
    \/ EditEventStep
    \/ RemoveEventStep

\* The window as FinanceApp.__init__ leaves it (gui 95-102), with a month count
\* typed into months_entry
InitGui ==
    /\ revision = "gui"
    /\ accounts = NoAccounts
    /\ events = <<>>
    /\ months_entry \in 1..MaxMonths
    /\ InitEngine

SpecGui == InitGui /\ [][NextGui]_vars

\* Accounts with a balance and a contribution that are not negative and a rate in
\* [0, 1], an empty event list, and a month count: the events are then added
\* through add_event only, and the simulation is run
InitAddEvents ==
    /\ revision = "gui"
    /\ accounts \in
          UNION { { [n \in names |-> Account(n, f[n][1], f[n][2], f[n][3])] :
                      f \in [names -> { b \in Balances : b >= 0 } \X
                                       { r \in Rates : r >= 0 /\ r <= 1 } \X
                                       { c \in Contributions : c >= 0 }] } :
                  names \in { x \in SUBSET (TypedNames \ {""}) :
                                Cardinality(x) <= MaxAccounts } }
    /\ events = <<>>
    /\ months_entry \in 1..MaxMonths
    /\ InitEngine

NextAddEvents ==
    \/ AddEventStep
    \/ RunSimulation
    \/ EventStep
    \/ GrowthStep
    \/ SnapshotStep
    \/ Return

SpecAddEvents == InitAddEvents /\ [][NextAddEvents]_vars

\* A caller that keeps the engine and calls run() on it again once run() has
\* returned: the constructor is not run again, so self.accounts and self.history
\* are what the call before left (gui 47-54, cfp 44-54)
RunAgain ==
    /\ pc = "done"
    /\ runs >= 1
    /\ runs < MaxRuns
    /\ runs' = runs + 1
    /\ applied' = <<>>
    /\ month' = 1
    /\ idx' = 1
    /\ pc' = IF LoopEntered(sim.months) THEN "events" ELSE "returning"
    /\ UNCHANGED <<revision, accounts, events, months_entry, sim, passed, outputs>>

\* The engine is constructed once
FirstRun == runs = 0 /\ RunSimulation

NextRerun ==
    \/ FirstRun
    \/ RunAgain
    \/ EventStep
    \/ GrowthStep
    \/ SnapshotStep
    \/ Return

InitRerun == Init \/ InitCfp

SpecRerun == InitRerun /\ [][NextRerun]_vars

---------------------------------------------------------------------------
\* Claims

\* The snapshot of the month just finished is the last of the history, and the
\* accounts are as the growth pass left them
AfterSnapshot ==
    /\ pc \in {"events", "returning"}
    /\ idx = 1
    /\ Len(sim.history) >= 1

LastSnapshot == sim.history[Len(sim.history)]

\* C1: when run() has returned, every Account handed to the constructor has the
\* balance and annual_return it was handed over with, and the event list is the
\* same list.
C1_RunLeavesInputsUnchanged ==
    pc = "done" =>
        /\ sim.events = passed.events
        /\ DOMAIN sim.accounts = DOMAIN passed.accounts
        /\ \A n \in DOMAIN passed.accounts :
              /\ sim.accounts[n].balance = passed.accounts[n].balance
              /\ sim.accounts[n].annual_return = passed.accounts[n].annual_return

\* C2: for a month count N >= 1, run() on a fresh engine returns exactly N
\* snapshots and the k-th has "Month" = k, whatever the accounts are called.
C2_MonthsOneToN ==
    (pc = "done" /\ sim.months >= 1) =>
        /\ Len(sim.history) = sim.months
        /\ \A k \in 1..Len(sim.history) : sim.history[k]["Month"] = k

\* C3: every snapshot holds, under each account name, that account's rounded
\* balance after the month's growth pass, and under "Total" the rounded sum of all
\* balances, whatever the accounts are called.
C3_SnapshotEntries ==
    AfterSnapshot =>
        /\ \A n \in DOMAIN sim.accounts :
              LastSnapshot[n] = Round2(sim.accounts[n].balance)
        /\ LastSnapshot["Total"] = Round2(SumBalances(sim.accounts))

\* C4: run_simulation invoked again with no edit in between shows the same
\* snapshot sequence as before: every run that returned returned the same
\* history, and a run returns exactly when the earlier ones did.
C4_RepeatedRunsAgree ==
    /\ \A i, j \in 1..Len(outputs) : outputs[i] = outputs[j]
    /\ pc = "done" => Len(outputs) = runs
    /\ pc = "raised" => Len(outputs) = 0

\* The second run has returned, and the runs moved the balance of "A"
C4_Witness ==
    /\ runs = 2
    /\ pc = "done"
    /\ Len(outputs) = 2
    /\ Len(outputs[2]) >= 1
    /\ "A" \in DOMAIN accounts
    /\ applied # <<>>
    /\ outputs[2][1]["A"] # Round2(accounts["A"].balance)

\* The events of a list whose account is a key of the mapping
Resolvable(evs, accs) == SelectSeq(evs, LAMBDA e : e.account \in DOMAIN accs)

\* How many months of the current run have had their growth pass
MonthsGrown == Len(sim.history) + (IF pc = "raised" THEN 1 ELSE 0)

\* C5: due events that name no account of the mapping do not make run() raise and
\* change nothing: the run ends with every account as a run of the list without
\* those events leaves it, and it raises only where that run raises too.
C5_DanglingEventsChangeNothing ==
    pc \in {"done", "raised"} =>
        LET ref == AccountsAfter(revision, passed.accounts,
                                 Resolvable(passed.events, passed.accounts),
                                 1, MonthsGrown)
        IN  /\ sim.accounts = ref
            /\ pc = "raised" => SnapshotRaises(ref)

\* A run has returned with account "A" present and two due events of different
\* kinds that name an unknown account
C5_Witness ==
    /\ pc = "done"
    /\ "A" \in DOMAIN sim.accounts
    /\ \E i, j \in 1..Len(sim.events) :
          /\ sim.events[i].type = "apy_change"
          /\ sim.events[i].new_apy # sim.accounts["A"].annual_return
          /\ sim.events[j].type \in {"deposit", "expense"}
          /\ \A k \in {i, j} :
                /\ sim.events[k].account \notin DOMAIN sim.accounts
                /\ sim.events[k].month \in 1..sim.months

\* The event loop of the current month is over and the growth pass has not begun
EventPassOver == pc = "events" /\ idx > Len(sim.events)

\* The due apy_change events of the current month for account n, by list position
RateChanges(n) ==
    { i \in 1..Len(sim.events) :
        /\ sim.events[i].month = month
        /\ sim.events[i].type = "apy_change"
        /\ sim.events[i].account = n }

\* C6: at the end of a month's event pass the accounts are the left-to-right fold
\* of the month's events, in list order, over the accounts the month began with;
\* of several apy_change events for one account the last in list order sets the
\* rate the growth pass uses.
C6_EventsInListOrder ==
    EventPassOver =>
        /\ sim.accounts =
             EventPass(AccountsAfter(revision, passed.accounts, sim.events, 1, month - 1),
                       sim.events, month, 1)
        /\ \A n \in DOMAIN sim.accounts :
              RateChanges(n) # {} =>
                  LET last == CHOOSE i \in RateChanges(n) :
                                  \A j \in RateChanges(n) : j <= i
                  IN  sim.accounts[n].annual_return = sim.events[last].new_apy

\* Two apy_change events with different rates were due for "A" in this month
C6_Witness ==
    /\ EventPassOver
    /\ "A" \in DOMAIN sim.accounts
    /\ \E i, j \in RateChanges("A") :
          i < j /\ sim.events[i].new_apy # sim.events[j].new_apy

\* The accounts and events of the example: balance 1000.00, rate 0, no
\* contribution, one deposit of 500.00 in month 1
DepositExample ==
    /\ DOMAIN passed.accounts = {"A"}
    /\ passed.accounts["A"] = Account("A", 1000000, 0, 0)
    /\ passed.events = <<Event(1, "deposit", "A", 500000, 0)>>

\* C7: the k-th snapshot is taken from the accounts after k rounds of: the whole
\* event pass of the month, then the growth pass; so an event of month m shows in
\* the snapshot of month m (the example: 1000.00 and a deposit of 500.00 in month
\* 1 give 1500.00 in the first snapshot).
C7_EventsThenGrowthThenSnapshot ==
    /\ \A k \in 1..Len(sim.history) :
          sim.history[k] =
              Snapshot(AccountsAfter(revision, passed.accounts, sim.events, 1, k), k)
    /\ (DepositExample /\ Len(sim.history) >= 1) => sim.history[1]["A"] = 1500000

\* The example has run its first month
C7_Witness == DepositExample /\ Len(sim.history) >= 1 /\ pc = "done"

\* C8: the growth pass starts when the month's events are over and gives each
\* account with a positive monthly_contribution exactly that amount before its own
\* growth, so that the contribution grows too; an account whose contribution is 0
\* or negative only grows.
C8_ContributionBeforeGrowth ==
    [][(pc = "events" /\ pc' = "snapshot") =>
          /\ idx > Len(sim.events)
          /\ \A n \in DOMAIN sim.accounts :
                LET a == sim.accounts[n]
                    paid == IF a.monthly_contribution > 0
                            THEN a.monthly_contribution ELSE 0
                IN  IF a.is_complex \/ ReturnIsComplex(a)
                    THEN sim'.accounts[n].is_complex
                    ELSE sim'.accounts[n].balance =
                             (a.balance + paid) * (1 + monthly_return(a))]_vars

\* A growth pass has run over an account with a positive contribution and a
\* non-zero rate and over one with a negative contribution
C8_Witness ==
    /\ pc = "snapshot"
    /\ \E n, m \in DOMAIN sim.accounts :
          /\ sim.accounts[n].monthly_contribution > 0
          /\ sim.accounts[n].annual_return = 4095
          /\ sim.accounts[m].monthly_contribution < 0

\* How often the event at position i has been applied in this run
TimesApplied(i) == Cardinality({ k \in 1..Len(applied) : applied[k][2] = i })

\* C9: an event of a recognised kind with a resolvable account is applied only in
\* the iteration of its own month; when run() has ended it has been applied exactly
\* once if its month is in 1..months and never otherwise.
C9_AppliedExactlyOnce ==
    \A i \in 1..Len(sim.events) :
        Acts(sim.accounts, sim.events[i]) =>
            /\ \A k \in 1..Len(applied) :
                  applied[k][2] = i => applied[k][1] = sim.events[i].month
            /\ pc \in {"done", "raised"} =>
                  TimesApplied(i) =
                      IF sim.events[i].month \in 1..sim.months THEN 1 ELSE 0

\* C9, for the runs that return: the same, with at most one application at any
\* time of any run
C9_ReturnedRunsApplyOnce ==
    \A i \in 1..Len(sim.events) :
        Acts(sim.accounts, sim.events[i]) =>
            /\ \A k \in 1..Len(applied) :
                  applied[k][2] = i => applied[k][1] = sim.events[i].month
            /\ TimesApplied(i) <= 1
            /\ pc = "done" =>
                  TimesApplied(i) =
                      IF sim.events[i].month \in 1..sim.months THEN 1 ELSE 0

\* C10: run() never raises, whatever the balances, rates, month count and events.
C10_RunNeverRaises == pc # "raised"

\* C11: a run is atomic for the caller: when run() has not returned (it raised),
\* the engine's history holds no snapshot of that run.
C11_NoPartialHistory == pc = "raised" => sim.history = <<>>

\* The events of a list whose kind run() dispatches on
Recognised(evs) ==
    SelectSeq(evs, LAMBDA e : e.type \in {"deposit", "expense", "apy_change"})

\* C12: an event whose account resolves but whose kind is none of deposit, expense
\* and apy_change is ignored: it does not make run() raise, and every balance and
\* annual_return ends as in the run of the list without such events (which raises
\* where this run raises).
C12_UnknownKindIgnored ==
    pc \in {"done", "raised"} =>
        LET ref == AccountsAfter(revision, passed.accounts,
                                 Recognised(passed.events), 1, MonthsGrown)
        IN  /\ \A n \in DOMAIN ref :
                  /\ sim.accounts[n].balance = ref[n].balance
                  /\ sim.accounts[n].annual_return = ref[n].annual_return
                  /\ sim.accounts[n].is_complex = ref[n].is_complex
            /\ DOMAIN sim.accounts = DOMAIN ref
            /\ pc = "raised" => SnapshotRaises(ref)

\* A run has returned in which an event of another kind, carrying an amount, was
\* due for the existing account "A"
C12_Witness ==
    /\ pc = "done"
    /\ "A" \in DOMAIN sim.accounts
    /\ \E i \in 1..Len(sim.events) :
          /\ sim.events[i].type = "bonus"
          /\ sim.events[i].account = "A"
          /\ sim.events[i].amount > 0
          /\ sim.events[i].month \in 1..sim.months

\* C13: with a month count of zero or below run() iterates over no month: it
\* returns an empty sequence of snapshots, applies no event, no contribution and
\* no growth, and leaves every account as it was handed over.
C13_NoMonthsNoChange ==
    (pc # "idle" /\ sim.months < 1) =>
        /\ pc \in {"returning", "done"}
        /\ sim.history = <<>>
        /\ applied = <<>>
        /\ sim.accounts = passed.accounts
        /\ accounts = passed.accounts
        /\ pc = "done" => outputs[Len(outputs)] = <<>>

\* run() has returned for a month count below 1, on an event list that is not
\* empty and an account that a month would have changed
C13_Witness ==
    /\ pc = "done"
    /\ sim.months < 1
    /\ Len(sim.events) > 0
    /\ \E n \in DOMAIN sim.accounts :
          /\ sim.accounts[n].monthly_contribution > 0
          /\ sim.accounts[n].annual_return = 4095
          /\ \E i \in 1..Len(sim.events) :
                sim.events[i].account = n /\ sim.events[i].type = "deposit"

\* C14: the engine neither clamps nor refuses an expense: a due expense of amount
\* a on a resolved account takes the balance b to b - a without a raise, also when
\* a > b; the growth pass then multiplies the negative balance like any other,
\* and the snapshot shows it.
C14_ExpenseNeverClamped ==
    [][/\ (pc = "events" /\ idx <= Len(sim.events)) =>
            LET e == sim.events[idx]
            IN  (/\ e.month = month
                 /\ e.type = "expense"
                 /\ e.account \in DOMAIN sim.accounts) =>
                    /\ pc' = "events"
                    /\ sim'.accounts[e.account].balance =
                           sim.accounts[e.account].balance - e.amount
       /\ (pc = "events" /\ pc' = "snapshot") =>
            \A n \in DOMAIN sim.accounts :
                LET a == sim.accounts[n]
                IN  (a.balance < 0 /\ a.monthly_contribution <= 0
                     /\ ~a.is_complex /\ ~ReturnIsComplex(a)) =>
                        sim'.accounts[n].balance = a.balance * (1 + monthly_return(a))
       /\ (pc = "snapshot" /\ pc' # "raised") =>
            \A n \in DOMAIN sim.accounts \ {"Total"} :
                sim'.history[Len(sim'.history)][n] = Round2(sim.accounts[n].balance)
      ]_vars

\* An expense of 500.00 on a balance of 0.004 at a rate that doubles the balance
\* every month: the run has returned with -999.992 on the account
C14_Witness ==
    /\ pc = "done"
    /\ sim.months = 1
    /\ passed.events = <<Event(1, "expense", "A", 500000, 0)>>
    /\ DOMAIN passed.accounts = {"A"}
    /\ passed.accounts["A"] = Account("A", 4, 4095, 0)
    /\ sim.accounts["A"].balance = -999992
    /\ sim.history[1]["A"] = -999990

RECURSIVE Pow(_, _)
Pow(b, n) == IF n = 0 THEN 1 ELSE b * Pow(b, n - 1)

\* The whole number whose twelfth power is x
TwelfthRoot(x) == CHOOSE f \in 0..4 : Pow(f, Year) = x

C18_ProjectionMatchesEngine ==
    \A k \in 1..Len(sim.history) :
        \A n \in DOMAIN accounts :
            /\ ~ProjectionRaises(accounts, events, n, k)
            /\ get_projected_balance(accounts, events, n, k) = sim.history[k][n]

\* The projection and the engine agree on every account whose contribution is not
\* negative and whose name is not the snapshot's "Total" key
ProjectionMatchesOtherwise ==
    \A k \in 1..Len(sim.history) :
        \A n \in DOMAIN accounts :
            (accounts[n].monthly_contribution >= 0 /\ n # "Total") =>
                /\ ~ProjectionRaises(accounts, events, n, k)
                /\ get_projected_balance(accounts, events, n, k) = sim.history[k][n]

\* C19: after any sequence of add_account, edit_account (renames included),
\* remove_account, add_event, edit_event and remove_event, every event of the list
\* names an account that is a key of the mapping.
C19_NoDanglingEvent ==
    \A i \in 1..Len(events) : events[i].account \in DOMAIN accounts

\* Events of both kinds follow the one account, which has been renamed to the
\* empty name
C19_Witness ==
    /\ DOMAIN accounts = {""}
    /\ Len(events) = 2
    /\ events[1].account = "" /\ events[1].type = "expense"
    /\ events[2].account = "" /\ events[2].type = "apy_change"

\* C17: when edit_event rejects the edit (month out of range, invalid type,
\* unknown account, APY outside [0, 1], amount not positive, insufficient funds),
\* the selected event is left as it was, and so is the rest of the list.
C17_RejectedEditChangesNothing ==
    [][\A i \in 1..Len(events), m \in TypedMonths, type \in EventTypes,
          account \in TypedNames, value \in TypedValues :
            (/\ EditEvent(i, m, type, account, value)
             /\ \/ EditEventRejectsEarly(accounts, months_entry, m, type, account)
                \/ EditEventRejectsLate(accounts, events, i, m, type, account, value))
            => events' = events]_vars

\* C20: edit_account changes only the selected account: every other account
\* keeps its key, balance, annual_return and monthly_contribution, and the number
\* of accounts is the same before and after.
C20_EditAccountFrame ==
    [][\A old_name \in DOMAIN accounts, new_name \in TypedNames,
          balance \in TypedBalances, annual_return \in TypedRates,
          monthly_contribution \in TypedContributions :
            EditAccount(old_name, new_name, balance, annual_return,
                        monthly_contribution) =>
                /\ \A n \in DOMAIN accounts \ {old_name} :
                      /\ n \in DOMAIN accounts'
                      /\ accounts'[n] = accounts[n]
                /\ Cardinality(DOMAIN accounts') = Cardinality(DOMAIN accounts)]_vars

\* C16: when every account starts with a balance and a contribution that are not
\* negative and a rate in [0, 1], and every event of the list was accepted by
\* add_event, in whatever order the events were added, no account balance is
\* negative in any snapshot of the run.
C16_AcceptedEventsNeverOverdraw ==
    \A k \in 1..Len(sim.history) :
        \A n \in DOMAIN sim.accounts : sim.history[k][n] >= 0

\* C21: a second call of run() on the same engine returns what the first call
\* returned: exactly `months` snapshots with Month fields 1..months and the same
\* balances, and it leaves the engine's accounts and history as the first call
\* left them.
C21_SecondRunSameResult ==
    (pc = "done" /\ runs = 2) =>
        /\ outputs[2] = outputs[1]
        /\ Len(outputs[2]) = (IF sim.months >= 1 THEN sim.months ELSE 0)
        /\ \A k \in 1..Len(outputs[2]) : outputs[2][k]["Month"] = k
        /\ sim.history = outputs[1]
        /\ sim.accounts = AccountsAfter(revision, passed.accounts, passed.events,
                                        1, sim.months)

\* What the calls do leave: the first call leaves the accounts after `months`
\* rounds and returns the history; the second call returns the first call's
\* snapshots followed by as many new ones, taken from accounts that have gone
\* through the months twice
SecondRunAppends ==
    /\ (pc = "done" /\ runs = 1) =>
          /\ sim.history = outputs[1]
          /\ sim.accounts = AccountsAfter(revision, passed.accounts, passed.events,
                                          1, sim.months)
    /\ (pc = "done" /\ runs = 2) =>
          /\ sim.history = outputs[2]
          /\ Len(outputs[2]) = 2 * Len(outputs[1])
          /\ SubSeq(outputs[2], 1, Len(outputs[1])) = outputs[1]
          /\ sim.accounts =
                 AccountsAfter(revision,
                               AccountsAfter(revision, passed.accounts,
                                             passed.events, 1, sim.months),
                               passed.events, 1, sim.months)

====
